---- MODULE Spec2Model ----
(***************************************************************************)
(* Orchestrator pipeline of the emergency video analyser                   *)
(* (backend/realtime_vlm/orchestrator/main.py) with the agent service's    *)
(* /analyze handler (backend/realtime_vlm/agent_service/main.py).          *)
(*                                                                         *)
(* Scores and severities are fixed-point integers in hundredths            *)
(* (urgency_score 9.5 is 950, severity 6.0 is 600).                        *)
(***************************************************************************)
EXTENDS Integers, Sequences, FiniteSets, TLC

\* ---------------------------------------------------------------- bounds
\* frames the extractor yields at most for one video
MaxFrames == 3
\* tool steps an agent run takes at most
MaxTools == 1
\* requests the client of the phone endpoints makes at most
MaxRequests == 3
\* a queue capacity that the events of a bounded video can exceed
QueueCapacity == 4

\* the GET /health requests of a run
MaxHealthRequests == 2

SessionIds == {"s1"}

\* the HTTP clients of GET /stream/video/{session_id}
Clients == {"c1", "c2"}

\* ------------------------------------------------ data (vision_service/models.py)
\* UrgencyLevel members used by the orchestrator
UrgencyLevel == {"low", "normal", "medium", "high", "critical"}

\* people_count: Optional[int] is <<>> (None) or <<n>>
NoCount == << >>

EmergencyMetrics(level, score, hazards, people, injuries) ==
    [urgency_level |-> level, urgency_score |-> score, detected_hazards |-> hazards,
     people_count |-> people, visible_injuries |-> injuries, frame_number |-> 0]

\* ------------------------------------------------ severity and dispatch policy
hazard_weight_violence_as_smoke(h) ==
    CASE h = "fire" -> 300
      [] h = "medical_emergency" -> 300
      [] h = "violence" -> 200
      [] h = "smoke" -> 200
      [] h = "structural_damage" -> 200
      [] h = "gas" -> 200
      [] h = "water" -> 120
      [] h = "blocked_exit" -> 100
      [] OTHER -> 80

hazard_weight(h) ==
    CASE h = "fire" -> 300
      [] h = "medical_emergency" -> 300
      [] h = "violence" -> 250
      [] h = "smoke" -> 200
      [] h = "structural_damage" -> 200
      [] h = "gas" -> 200
      [] h = "water" -> 120
      [] h = "blocked_exit" -> 100
      [] OTHER -> 80

RECURSIVE SumWeights(_)
SumWeights(hs) ==
    IF hs = {} THEN 0
    ELSE LET h == CHOOSE x \in hs : TRUE IN hazard_weight(h) + SumWeights(hs \ {h})

Min(a, b) == IF a <= b THEN a ELSE b

\* round(x, 2) of a value given in thousandths, result in hundredths
Round2(thousandths) == (thousandths + 5) \div 10

\* metrics.people_count or 0
PeopleOrZero(people) == IF people = NoCount THEN 0 ELSE people[1]

calculate_emergency_severity_without_people(metrics) ==
    LET hazard_score == SumWeights(metrics.detected_hazards)
        injury_bonus == IF metrics.visible_injuries THEN 250 ELSE 0
        base_thousandths == metrics.urgency_score * 4
    IN Min(1000, Round2(base_thousandths + 10 * (hazard_score + injury_bonus)))

calculate_emergency_severity(metrics) ==
    LET hazard_score == SumWeights(metrics.detected_hazards)
        injury_bonus == IF metrics.visible_injuries THEN 250 ELSE 0
        people_bonus == Min(PeopleOrZero(metrics.people_count), 5) * 30
        base_thousandths == metrics.urgency_score * 4
    IN Min(1000, Round2(base_thousandths + 10 * (hazard_score + injury_bonus + people_bonus)))

requires_agent_dispatch_any_urgent(metrics, severity_index) ==
    LET has_critical_hazard == \E h \in metrics.detected_hazards :
                                   h \in {"fire", "medical_emergency"}
    IN (has_critical_hazard \/ metrics.visible_injuries)
       \/ (metrics.urgency_score >= 600 \/ severity_index >= 650)

requires_agent_dispatch(metrics, severity_index) ==
    LET has_critical_hazard == \E h \in metrics.detected_hazards :
                                   h \in {"fire", "medical_emergency"}
    IN (has_critical_hazard \/ metrics.visible_injuries)
       /\ (metrics.urgency_score >= 600 \/ severity_index >= 650)

URGENCY_PRIORITY == [l \in {"low", "normal", "medium", "high"} |->
                        CASE l = "low" -> 0 [] l = "normal" -> 1
                          [] l = "medium" -> 2 [] l = "high" -> 3]

\* URGENCY_PRIORITY.get(label, 0)
Priority(label) == IF label \in DOMAIN URGENCY_PRIORITY THEN URGENCY_PRIORITY[label] ELSE 0

classify_urgency(score) ==
    IF score >= 700 THEN "high"
    ELSE IF score >= 500 THEN "medium"
    ELSE IF score >= 300 THEN "normal"
    ELSE "low"

resolve_urgency_label_raw(metrics) == metrics.urgency_level

resolve_urgency_label(metrics) ==
    LET level_value == metrics.urgency_level
    IN IF level_value = "critical" THEN "high"
       ELSE IF level_value \in DOMAIN URGENCY_PRIORITY THEN level_value
       ELSE classify_urgency(metrics.urgency_score)


\* ------------------------------------------------ agent service: POST /analyze
\* one intermediate step of the agent run: the tool and the "urgency" its JSON
\* output carries ("" when the output has no such key)
ToolSteps == {[tool |-> "call_authorities", urgency |-> "high"],
              [tool |-> "phone_call_tool", urgency |-> ""],
              [tool |-> "phone_sms_tool", urgency |-> ""],
              [tool |-> "redirect_to_chat_tool", urgency |-> ""]}

RECURSIVE SeqsUpTo(_, _)
SeqsUpTo(S, n) ==
    IF n = 0 THEN {<< >>}
    ELSE LET shorter == SeqsUpTo(S, n - 1)
         IN shorter \cup {Append(q, x) : q \in {r \in shorter : Len(r) = n - 1}, x \in S}

\* what agent_executor.invoke can do: raise, or return its intermediate steps
AgentRuns == {[raises |-> TRUE, steps |-> << >>]}
             \cup {[raises |-> FALSE, steps |-> q] : q \in SeqsUpTo(ToolSteps, MaxTools)}

\* the entry of emergency_calls built from one step
EmergencyCall(step, request) ==
    IF step.tool = "redirect_to_chat_tool"
    THEN [tool |-> step.tool, urgency |-> "-", priority |-> "critical",
          service_type |-> "-", service |-> "-"]
    ELSE [tool |-> step.tool,
          urgency |-> IF step.urgency # "" THEN step.urgency ELSE request.urgency_level,
          priority |-> "-", service_type |-> "-", service |-> "-"]

\* lines 96-104
SERVICE_LABELS ==
    [svc \in {"FIRE", "POLICE", "SAMU"} |->
        CASE svc = "FIRE" -> "Fire Department"
          [] svc = "POLICE" -> "Police Department"
          [] svc = "SAMU" -> "Ambulance / EMS"]

FIRE_TOKENS == {"fire", "flame", "smoke", "explosion", "burn", "incendie"}
MEDICAL_TOKENS == {"medical", "injury", "bleeding", "victim", "heart", "respiration",
                   "samu", "ambulance"}
POLICE_TOKENS == {"weapon", "assault", "violence", "police", "attack", "threat",
                  "agression", "kidnap"}

\* the tokens a word of the text holds as substrings: the word itself when it is
\* a token, the token medical for the hazard medical_emergency
TokensOf(word) == IF word = "medical_emergency" THEN {"medical"} ELSE {word}

\* line 182: the words of scene_description and of detected_hazards
RequestText(request) == request.scene_description \cup request.detected_hazards

\* any(token in text for token in tokens)
AnyTokenIn(text, tokens) == \E word \in text : TokensOf(word) \cap tokens # {}

infer_service_police_before_people(request) ==
    LET text == RequestText(request)
    IN IF AnyTokenIn(text, FIRE_TOKENS) THEN "FIRE"
       ELSE IF AnyTokenIn(text, POLICE_TOKENS) THEN "POLICE"
       ELSE "SAMU"

\* _infer_service_from_request_data
infer_service_from_request_data(request) ==
    LET text == RequestText(request)
    IN IF AnyTokenIn(text, FIRE_TOKENS) THEN "FIRE"
       ELSE IF request.visible_injuries \/ PeopleOrZero(request.people_count) > 0 THEN "SAMU"
       ELSE IF AnyTokenIn(text, POLICE_TOKENS) THEN "POLICE"
       ELSE IF AnyTokenIn(text, MEDICAL_TOKENS) THEN "SAMU"
       ELSE "SAMU"

\* str.lower() of a service name
Lower(svc) == CASE svc = "FIRE" -> "fire" [] svc = "POLICE" -> "police" [] svc = "SAMU" -> "samu"

\* lines 664-685
fallback_call(request) ==
    LET inferred_service == infer_service_from_request_data(request)
    IN [tool |-> "fallback_virtual_call", urgency |-> request.urgency_level,
        priority |-> "-", service_type |-> Lower(inferred_service),
        service |-> SERVICE_LABELS[inferred_service]]

\* AgentResponse returned with status 200 by analyze_emergency
analyze_emergency(request, run) ==
    IF run.raises
    THEN [success |-> FALSE, emergency_calls |-> << >>]
    ELSE LET calls == [i \in 1..Len(run.steps) |-> EmergencyCall(run.steps[i], request)]
         IN [success |-> TRUE,
             emergency_calls |-> IF calls = << >> THEN <<fallback_call(request)>> ELSE calls]

\* ------------------------------------------------ vision service responses
\* bodies of a 200 response of POST /analyze that EmergencyMetrics accepts
VisionResponses ==
    { EmergencyMetrics("low", 150, {}, <<3>>, FALSE),
      EmergencyMetrics("critical", 950, {"fire"}, NoCount, FALSE),
      EmergencyMetrics("high", 750, {"smoke"}, NoCount, FALSE),
      EmergencyMetrics("medium", 450, {}, <<1>>, TRUE),
      EmergencyMetrics("normal", 350, {"water"}, <<0>>, FALSE),
      EmergencyMetrics("critical", 0, {"violence"}, NoCount, FALSE),
      EmergencyMetrics("low", 0, {}, <<-10>>, FALSE),
      EmergencyMetrics("low", 150, {"fire", "medical_emergency", "violence"}, <<7>>, TRUE) }

\* ------------------------------------------------ state
VARIABLES
    SESSION_STREAMS,   \* session ids that map to a queue
    SESSION_TASKS,     \* session ids that map to a pipeline task
    queue,             \* per session: the events put and not yet got
    published,         \* per session: every event put on its queue, in order
    video_file,        \* sessions whose temp video file exists
    pc,                \* per session: where the pipeline task is suspended
    local,             \* per session: the local variables of _process_video_session
    XAI_ENABLED,       \* the XAI_ENABLED environment flag
    vision_service,    \* the metrics the vision service may answer with
    consumer,          \* per session and client: state of the client's event_generator
    http_status,       \* per session and client: status of its last GET /stream/video/{id}
    policy,            \* the inputs and results of one call of the pure policy functions
    delivered,         \* per session and client: how many events were streamed to it
    phone,             \* SYSTEM_STATE["phone"]
    phone_task,        \* per caller: its handler or monitor step and the ip it works on
    phone_log          \* the responses of the phone endpoints, in order

phone_vars == <<phone, phone_task, phone_log>>

session_vars == <<SESSION_STREAMS, SESSION_TASKS, queue, published, video_file, pc, local,
                  XAI_ENABLED, vision_service, consumer, http_status, policy, delivered>>

vars == <<SESSION_STREAMS, SESSION_TASKS, queue, published, video_file, pc, local,
          XAI_ENABLED, vision_service, consumer, http_status, policy, delivered,
          phone_vars>>

\* ------------------------------------------------ phone bridge state
\* A phone address is the sequence of the pieces of its string: " " is a run of
\* whitespace, "http://" and "https://" a scheme prefix, "/" a slash, any other
\* piece a run of host characters. None is the empty sequence.
None == << >>

\* str.strip()
Strip(str) ==
    LET RECURSIVE lstrip(_), rstrip(_)
        lstrip(x) == IF x # << >> /\ Head(x) = " " THEN lstrip(Tail(x)) ELSE x
        rstrip(x) == IF x # << >> /\ x[Len(x)] = " "
                     THEN rstrip(SubSeq(x, 1, Len(x) - 1)) ELSE x
    IN rstrip(lstrip(str))

\* str.rstrip("/")
RStripSlash(str) ==
    LET RECURSIVE rstrip(_)
        rstrip(x) == IF x # << >> /\ x[Len(x)] = "/"
                     THEN rstrip(SubSeq(x, 1, Len(x) - 1)) ELSE x
    IN rstrip(str)

normalize_phone_ip(raw) ==
    LET cleaned == Strip(raw)
    IN IF raw = None \/ cleaned = << >> THEN None
       ELSE IF Head(cleaned) \in {"http://", "https://"}
            THEN RStripSlash(Strip(Tail(cleaned)))
            ELSE RStripSlash(Strip(cleaned))

\* the ip strings a request body or the PHONE_IP variable may hold
RawIps ==
    { << >>,
      <<"http://", "/">>,
      <<"192.168.1.50">>,
      <<"http://", "192.168.1.50", "/", "/">>,
      <<" ", "https://", "10.0.0.2:8080", "/", " ">> }

\* lines 57-64
PhoneState(ip) ==
    [connected |-> FALSE, ip |-> ip, last_checked |-> "None", last_error |-> "None"]

\* the monitor task and the client of the phone endpoints
PhoneCallers == {"monitor", "client"}

\* where a caller is, the ip its _update_phone_health call read, and for
\* update_phone_ip the request's ip and the handler's normalized_ip
PhoneTask(at, ip, request_ip, normalized_ip) ==
    [pc |-> at, ip |-> ip, request_ip |-> request_ip, normalized_ip |-> normalized_ip]

Resting(c) == PhoneTask(IF c = "monitor" THEN "sleep" ELSE "idle", None, None, None)

InitPhoneTask == [c \in PhoneCallers |-> Resting(c)]

\* a deployment without PHONE_IP whose phone endpoints are not called
NoPhone ==
    /\ phone = PhoneState(None)
    /\ phone_task = InitPhoneTask
    /\ phone_log = << >>

\* ------------------------------------------------ sessions
Labels == {"low", "normal", "medium", "high"}

\* lines 455-465: the accumulators of a session; xai_requests and agent_requests
\* count the remote calls made, agent_status is how the agent call ended
InitLocal ==
    [frame_count |-> 0, all_metrics |-> << >>, best_metrics_entry |-> << >>,
     dispatch_candidates |-> << >>,
     critical_incidents |-> << >>, urgency_timeline |-> << >>,
     urgency_counts |-> [l \in Labels |-> 0], max_urgency_label |-> "low",
     xai_analysis |-> "None", max_severity |-> 0, metrics |-> << >>,
     selected |-> << >>, xai_requests |-> 0, agent_requests |-> 0, agent_status |-> "-"]

NoPolicyCall == [called |-> FALSE]

Event(name) ==
    [event |-> name, frame_number |-> 0, urgency_level |-> "-",
     dispatch_recommended |-> FALSE, emergency_responses |-> << >>,
     threat_level |-> "-", dominant_urgency_level |-> "-",
     critical_incidents |-> << >>, urgency_timeline |-> << >>,
     total_frames_analyzed |-> 0, detail |-> ""]

InitCommon ==
    /\ SESSION_STREAMS = {}
    /\ SESSION_TASKS = {}
    /\ queue = [s \in SessionIds |-> << >>]
    /\ published = [s \in SessionIds |-> << >>]
    /\ video_file = {}
    /\ pc = [s \in SessionIds |-> "idle"]
    /\ local = [s \in SessionIds |-> InitLocal]
    /\ consumer = [s \in SessionIds |-> [c \in Clients |-> "none"]]
    /\ http_status = [s \in SessionIds |-> [c \in Clients |-> 0]]
    /\ delivered = [s \in SessionIds |-> [c \in Clients |-> 0]]

Init ==
    /\ InitCommon
    /\ NoPhone
    /\ XAI_ENABLED \in BOOLEAN
    /\ vision_service = VisionResponses
    /\ policy = NoPolicyCall


\* ------------------------------------------------ session registry and event bus
\* _publish_event for a run of events: a no-op when the session has no queue
publish_event(s, events) ==
    /\ queue' = [queue EXCEPT ![s] = IF s \in SESSION_STREAMS THEN @ \o events ELSE @]
    /\ published' = [published EXCEPT ![s] = IF s \in SESSION_STREAMS THEN @ \o events ELSE @]

\* _cleanup_session: the only caller is the task itself, whose cancel() of itself
\* takes effect at no later await
cleanup_session(s) ==
    /\ SESSION_STREAMS' = SESSION_STREAMS \ {s}
    /\ SESSION_TASKS' = SESSION_TASKS \ {s}

\* the finally block of _process_video_session after the events of the try/except
\* part: remove the temp file, publish end, clean the session up, and return
FinishNoCleanup(s, events) ==
    /\ publish_event(s, events \o <<Event("end")>>)
    /\ video_file' = video_file \ {s}
    /\ pc' = [pc EXCEPT ![s] = "done"]
    /\ UNCHANGED <<SESSION_STREAMS, SESSION_TASKS>>

FinishEndFirst(s, events) ==
    /\ publish_event(s, <<Event("end")>> \o events)
    /\ video_file' = video_file \ {s}
    /\ cleanup_session(s)
    /\ pc' = [pc EXCEPT ![s] = "done"]

Finish(s, events) ==
    /\ publish_event(s, events \o <<Event("end")>>)
    /\ video_file' = video_file \ {s}
    /\ cleanup_session(s)
    /\ pc' = [pc EXCEPT ![s] = "done"]

\* line 692: error{detail: str(exc)}
ErrorEvent(detail) == [Event("error") EXCEPT !.detail = detail]

\* POST /analyze/video-emergency: write the temp file, register, create the task
analyze_video_emergency(s) ==
    /\ pc[s] = "idle"
    /\ video_file' = video_file \cup {s}
    /\ SESSION_STREAMS' = SESSION_STREAMS \cup {s}
    /\ SESSION_TASKS' = SESSION_TASKS \cup {s}
    /\ queue' = [queue EXCEPT ![s] = << >>]
    /\ pc' = [pc EXCEPT ![s] = "open"]
    /\ UNCHANGED <<published, local, XAI_ENABLED, vision_service, consumer,
                   http_status, policy, delivered, phone_vars>>

\* ------------------------------------------------ _process_video_session
\* VideoProcessor(video_path) opens the file
OpenVideo(s) ==
    /\ pc[s] = "open"
    /\ local' = [local EXCEPT ![s] = InitLocal]
    /\ pc' = [pc EXCEPT ![s] = "frames"]
    /\ UNCHANGED <<SESSION_STREAMS, SESSION_TASKS, queue, published, video_file,
                   XAI_ENABLED, vision_service, consumer, http_status, policy, delivered, phone_vars>>

OpenVideoFailsKeepsSession(s) ==
    /\ pc[s] = "open"
    /\ FinishNoCleanup(s, <<ErrorEvent("Could not open video file")>>)
    /\ UNCHANGED <<local, XAI_ENABLED, vision_service, consumer, http_status, policy, delivered, phone_vars>>

\* VideoProcessor(video_path) raises: except publishes error, then finally
OpenVideoFails(s) ==
    /\ pc[s] = "open"
    /\ Finish(s, <<ErrorEvent("Could not open video file")>>)
    /\ UNCHANGED <<local, XAI_ENABLED, vision_service, consumer, http_status, policy, delivered, phone_vars>>

\* extract_frames raises on its first step (fps <= 0)
ExtractFramesFails(s) ==
    /\ pc[s] = "frames"
    /\ local[s].frame_count = 0
    /\ Finish(s, <<ErrorEvent("Invalid FPS value")>>)
    /\ UNCHANGED <<local, XAI_ENABLED, vision_service, consumer, http_status, policy, delivered, phone_vars>>

\* the extractor yields the next frame: frame_count += 1 and the vision request
ExtractFrame(s) ==
    /\ pc[s] = "frames"
    /\ local[s].frame_count < MaxFrames
    /\ local' = [local EXCEPT ![s].frame_count = @ + 1]
    /\ pc' = [pc EXCEPT ![s] = "vision"]
    /\ UNCHANGED <<SESSION_STREAMS, SESSION_TASKS, queue, published, video_file,
                   XAI_ENABLED, vision_service, consumer, http_status, policy, delivered, phone_vars>>

\* the vision service answers with a status other than 200: continue
VisionNot200(s) ==
    /\ pc[s] = "vision"
    /\ pc' = [pc EXCEPT ![s] = "frames"]
    /\ UNCHANGED <<SESSION_STREAMS, SESSION_TASKS, queue, published, video_file, local,
                   XAI_ENABLED, vision_service, consumer, http_status, policy, delivered, phone_vars>>

\* session.post raises (unreachable, timeout) or the body is no EmergencyMetrics
VisionRaises(s) ==
    /\ pc[s] = "vision"
    /\ Finish(s, <<ErrorEvent("vision request failed")>>)
    /\ UNCHANGED <<local, XAI_ENABLED, vision_service, consumer, http_status, policy, delivered, phone_vars>>

CountLabel(counts, label) ==
    IF label \in DOMAIN counts THEN [counts EXCEPT ![label] = @ + 1]
    ELSE [l \in DOMAIN counts \cup {label} |-> IF l = label THEN 1 ELSE counts[l]]

TimelinePoint(metrics, label) ==
    [frame_number |-> metrics.frame_number, urgency_level |-> label]

\* lines 483-499: the accumulators after the frame's metrics
Accumulate(loc, metrics) ==
    LET severity_index == calculate_emergency_severity(metrics)
        urgency_label == resolve_urgency_label(metrics)
    IN [loc EXCEPT
          !.metrics = <<metrics>>,
          !.all_metrics = Append(@, metrics),
          !.max_severity = IF severity_index >= @ THEN severity_index ELSE @,
          !.best_metrics_entry =
              IF @ = << >> \/ severity_index > @[1].severity
              THEN <<[metrics |-> metrics, severity |-> severity_index]>> ELSE @,
          !.urgency_counts = CountLabel(@, urgency_label),
          !.max_urgency_label =
              IF Priority(urgency_label) >= Priority(@) THEN urgency_label ELSE @,
          !.dispatch_candidates =
              IF requires_agent_dispatch(metrics, severity_index)
              THEN Append(@, [metrics |-> metrics, severity |-> severity_index]) ELSE @]

\* line 515-516: the frame is an incident
IsIncident(metrics) ==
    Priority(resolve_urgency_label(metrics)) >= Priority("high")
    \/ calculate_emergency_severity(metrics) >= 600

\* lines 530-538, with xai_analysis the session's XAI result so far
should_trigger_xai_always(xai_analysis, metrics) ==
    Priority(resolve_urgency_label(metrics)) >= Priority("high")
    \/ calculate_emergency_severity(metrics) >= 700
    \/ metrics.visible_injuries

should_trigger_xai(xai_analysis, metrics) ==
    /\ xai_analysis = "None"
    /\ \/ Priority(resolve_urgency_label(metrics)) >= Priority("high")
       \/ calculate_emergency_severity(metrics) >= 700
       \/ metrics.visible_injuries

FrameEvent(name, metrics) ==
    [Event(name) EXCEPT
        !.frame_number = metrics.frame_number,
        !.urgency_level = resolve_urgency_label(metrics),
        !.dispatch_recommended =
            requires_agent_dispatch(metrics, calculate_emergency_severity(metrics))]

XaiEvent(name, metrics) == [Event(name) EXCEPT !.frame_number = metrics.frame_number]

\* the vision service answers 200 with metrics m: lines 481-539 and, when no XAI
\* request follows, lines 572-590
VisionOk(s, m) ==
    /\ pc[s] = "vision"
    /\ LET metrics == [m EXCEPT !.frame_number = local[s].frame_count]
           loc == Accumulate(local[s], metrics)
           label == resolve_urgency_label(metrics)
           incident == IsIncident(metrics)
           trigger == incident /\ should_trigger_xai(local[s].xai_analysis, metrics)
           incidents == IF incident
                        THEN Append(loc.critical_incidents, FrameEvent("incident", metrics))
                        ELSE loc.critical_incidents
           events == <<FrameEvent("frame", metrics)>>
                     \o (IF incident THEN <<FrameEvent("incident", metrics)>> ELSE << >>)
       IN IF trigger /\ XAI_ENABLED
          THEN /\ local' = [local EXCEPT ![s] =
                               [loc EXCEPT !.critical_incidents = incidents,
                                           !.xai_requests = @ + 1]]
               /\ publish_event(s, events)
               /\ pc' = [pc EXCEPT ![s] = "xai"]
          ELSE /\ local' = [local EXCEPT ![s] =
                               [loc EXCEPT !.critical_incidents = incidents,
                                           !.urgency_timeline =
                                               Append(@, TimelinePoint(metrics, label))]]
               /\ publish_event(s, events \o (IF trigger
                                               THEN <<XaiEvent("xai_disabled", metrics)>>
                                               ELSE << >>))
               /\ pc' = [pc EXCEPT ![s] = "frames"]
    /\ UNCHANGED <<SESSION_STREAMS, SESSION_TASKS, video_file, XAI_ENABLED,
                   vision_service, consumer, http_status, policy, delivered, phone_vars>>

\* _request_xai_heatmap returns the XAI service's 200 body: lines 541-561, 583-590
XaiOk(s) ==
    /\ pc[s] = "xai"
    /\ LET metrics == local[s].metrics[1]
       IN /\ local' = [local EXCEPT
                          ![s].xai_analysis = "dict",
                          ![s].urgency_timeline =
                              Append(@, TimelinePoint(metrics, resolve_urgency_label(metrics)))]
          /\ publish_event(s, <<XaiEvent("xai_heatmap", metrics)>>)
    /\ pc' = [pc EXCEPT ![s] = "frames"]
    /\ UNCHANGED <<SESSION_STREAMS, SESSION_TASKS, video_file, XAI_ENABLED,
                   vision_service, consumer, http_status, policy, delivered, phone_vars>>

XaiFailsUnhandled(s) ==
    /\ pc[s] = "xai"
    /\ Finish(s, <<ErrorEvent("xai request failed")>>)
    /\ UNCHANGED <<local, XAI_ENABLED, vision_service, consumer, http_status, policy, delivered, phone_vars>>

\* _request_xai_heatmap raises (status not 200, unreachable, timeout): lines 562-571
XaiFails(s) ==
    /\ pc[s] = "xai"
    /\ LET metrics == local[s].metrics[1]
       IN /\ local' = [local EXCEPT
                          ![s].urgency_timeline =
                              Append(@, TimelinePoint(metrics, resolve_urgency_label(metrics)))]
          /\ publish_event(s, <<XaiEvent("xai_error", metrics)>>)
    /\ pc' = [pc EXCEPT ![s] = "frames"]
    /\ UNCHANGED <<SESSION_STREAMS, SESSION_TASKS, video_file, XAI_ENABLED,
                   vision_service, consumer, http_status, policy, delivered, phone_vars>>


\* lines 599-606
DominantLabel(loc) ==
    IF loc.frame_count > 0
    THEN CHOOSE l \in DOMAIN loc.urgency_counts :
             \A k \in DOMAIN loc.urgency_counts \ {l} :
                 \/ loc.urgency_counts[k] < loc.urgency_counts[l]
                 \/ /\ loc.urgency_counts[k] = loc.urgency_counts[l]
                    /\ Priority(k) <= Priority(l)
    ELSE "low"

MaxCandidateLatest(candidates) ==
    candidates[CHOOSE i \in 1..Len(candidates) :
                   \A j \in 1..Len(candidates) :
                       \/ candidates[j].severity < candidates[i].severity
                       \/ candidates[j].severity = candidates[i].severity /\ j <= i]

\* max(dispatch_candidates, key=severity): the first of the greatest
MaxCandidate(candidates) ==
    candidates[CHOOSE i \in 1..Len(candidates) :
                   \A j \in 1..Len(candidates) :
                       \/ candidates[j].severity < candidates[i].severity
                       \/ candidates[j].severity = candidates[i].severity /\ j >= i]

\* lines 608-618: << >> when no frame is selected, else <<entry>>
SelectDispatchCandidatesOnly(loc) ==
    IF loc.dispatch_candidates # << >>
    THEN <<MaxCandidate(loc.dispatch_candidates)>>
    ELSE << >>

SelectDispatch(loc) ==
    LET best == loc.best_metrics_entry
        should_invoke_agent ==
            \/ loc.dispatch_candidates # << >>
            \/ best # << >> /\ best[1].severity >= 500
    IN IF should_invoke_agent /\ best # << >>
       THEN IF loc.dispatch_candidates # << >>
            THEN <<MaxCandidate(loc.dispatch_candidates)>>
            ELSE best
       ELSE << >>

\* lines 663-687
CompleteEvent(loc, emergency_responses) ==
    [Event("complete") EXCEPT
        !.threat_level = loc.max_urgency_label,
        !.dominant_urgency_level = DominantLabel(loc),
        !.critical_incidents = loc.critical_incidents,
        !.urgency_timeline = loc.urgency_timeline,
        !.total_frames_analyzed = loc.frame_count,
        !.emergency_responses = emergency_responses]

EndOfStreamAwaitsConsumer(s) ==
    /\ pc[s] = "frames"
    /\ \E c \in Clients : consumer[s][c] = "attached"
    /\ SelectDispatch(local[s]) = << >>
    /\ Finish(s, <<CompleteEvent(local[s], << >>)>>)
    /\ UNCHANGED <<local, XAI_ENABLED, vision_service, consumer, http_status, policy, delivered, phone_vars>>

\* the extractor is exhausted and no frame is selected: lines 593-620, 663-699
EndOfStream(s) ==
    /\ pc[s] = "frames"
    /\ SelectDispatch(local[s]) = << >>
    /\ Finish(s, <<CompleteEvent(local[s], << >>)>>)
    /\ UNCHANGED <<local, XAI_ENABLED, vision_service, consumer, http_status, policy, delivered, phone_vars>>

\* the extractor is exhausted and a frame is selected: lines 593-634, the agent request
EndOfStreamDispatch(s) ==
    /\ pc[s] = "frames"
    /\ SelectDispatch(local[s]) # << >>
    /\ local' = [local EXCEPT ![s].selected = SelectDispatch(local[s]),
                              ![s].agent_requests = @ + 1]
    /\ pc' = [pc EXCEPT ![s] = "agent"]
    /\ UNCHANGED <<SESSION_STREAMS, SESSION_TASKS, queue, published, video_file,
                   XAI_ENABLED, vision_service, consumer, http_status, policy, delivered, phone_vars>>

\* lines 623-633: the request body, urgency_level raw
AgentPayload(entry) ==
    [urgency_level |-> entry.metrics.urgency_level,
     urgency_score |-> entry.metrics.urgency_score,
     scene_description |-> {},
     detected_hazards |-> entry.metrics.detected_hazards,
     people_count |-> entry.metrics.people_count,
     visible_injuries |-> entry.metrics.visible_injuries,
     frame_number |-> entry.metrics.frame_number,
     severity_index |-> entry.severity]

AgentEvent(name, frame_number, calls) ==
    [Event(name) EXCEPT !.frame_number = frame_number, !.emergency_responses = calls]

\* the events of lines 635-659 for the 200 body agent_result
AgentEventsToolCallsFirst(frame_number, agent_result) ==
    [i \in 1..Len(agent_result.emergency_calls) |->
                AgentEvent("tool_call", frame_number, <<agent_result.emergency_calls[i]>>)]
    \o <<AgentEvent("agent_call", frame_number, agent_result.emergency_calls)>>

AgentEvents(frame_number, agent_result) ==
    <<AgentEvent("agent_call", frame_number, agent_result.emergency_calls)>>
    \o [i \in 1..Len(agent_result.emergency_calls) |->
           AgentEvent("tool_call", frame_number, <<agent_result.emergency_calls[i]>>)]

\* the agent service answers 200 after the run `run`: lines 635-659, 663-699
AgentOk(s, run) ==
    /\ pc[s] = "agent"
    /\ LET entry == local[s].selected[1]
           agent_result == analyze_emergency(AgentPayload(entry), run)
       IN Finish(s, AgentEvents(entry.metrics.frame_number, agent_result)
                    \o <<CompleteEvent(local[s], agent_result.emergency_calls)>>)
    /\ local' = [local EXCEPT ![s].agent_status = "200"]
    /\ UNCHANGED <<XAI_ENABLED, vision_service, consumer, http_status, policy, delivered, phone_vars>>

AgentNot200StatusUnchecked(s) ==
    /\ pc[s] = "agent"
    /\ Finish(s, <<AgentEvent("agent_call", local[s].selected[1].metrics.frame_number, << >>),
                   CompleteEvent(local[s], << >>)>>)
    /\ local' = [local EXCEPT ![s].agent_status = "not200"]
    /\ UNCHANGED <<XAI_ENABLED, vision_service, consumer, http_status, policy, delivered, phone_vars>>

\* the agent service answers 503 (agent not initialized) or another status
AgentNot200(s) ==
    /\ pc[s] = "agent"
    /\ Finish(s, <<CompleteEvent(local[s], << >>)>>)
    /\ local' = [local EXCEPT ![s].agent_status = "not200"]
    /\ UNCHANGED <<XAI_ENABLED, vision_service, consumer, http_status, policy, delivered, phone_vars>>

\* session.post raises: lines 660-661, then 663-699
AgentRaises(s) ==
    /\ pc[s] = "agent"
    /\ Finish(s, <<CompleteEvent(local[s], << >>)>>)
    /\ local' = [local EXCEPT ![s].agent_status = "raised"]
    /\ UNCHANGED <<XAI_ENABLED, vision_service, consumer, http_status, policy, delivered, phone_vars>>

\* ------------------------------------------------ GET /stream/video/{session_id}
\* the handler for client c: 404 without a queue, else a StreamingResponse over
\* a new event_generator that reads the session's queue
stream_video_updates(s, c) ==
    /\ consumer[s][c] # "attached"
    /\ IF s \in SESSION_STREAMS
       THEN /\ consumer' = [consumer EXCEPT ![s][c] = "attached"]
            /\ http_status' = [http_status EXCEPT ![s][c] = 200]
       ELSE /\ http_status' = [http_status EXCEPT ![s][c] = 404]
            /\ UNCHANGED consumer
    /\ UNCHANGED <<SESSION_STREAMS, SESSION_TASKS, queue, published, video_file, pc,
                   local, XAI_ENABLED, vision_service, policy, delivered, phone_vars>>

\* event_generator of client c: one queue.get() and yield, leaving the loop on end
event_generator(s, c) ==
    /\ consumer[s][c] = "attached"
    /\ queue[s] # << >>
    /\ queue' = [queue EXCEPT ![s] = Tail(@)]
    /\ delivered' = [delivered EXCEPT ![s][c] = @ + 1]
    /\ consumer' = [consumer EXCEPT ![s][c] =
                       IF Head(queue[s]).event = "end" THEN "ended" ELSE @]
    /\ UNCHANGED <<SESSION_STREAMS, SESSION_TASKS, published, video_file, pc, local,
                   XAI_ENABLED, vision_service, http_status, policy, phone_vars>>

health_no_ip_silent(ph) == [ph EXCEPT !.connected = FALSE, !.last_checked = "iso"]

\* ------------------------------------------------ phone health and endpoints
\* lines 190-198: no ip is configured
health_no_ip(ph) ==
    [ph EXCEPT !.connected = FALSE, !.last_checked = "iso",
               !.last_error = "Phone IP not configured"]

ProbeOutcomes == {"200", "not200", "raised"}

probe_update_restores_ip(ph, ip, outcome) ==
    [ph EXCEPT !.ip = ip,
               !.connected = (outcome = "200"),
               !.last_checked = "iso",
               !.last_error = CASE outcome = "200" -> "None"
                                [] outcome = "not200" -> "Unexpected status"
                                [] OTHER -> "exception"]

\* lines 211-241: the state update after GET {base_url}/health for ip ended
probe_update(ph, ip, outcome) ==
    [ph EXCEPT !.connected = (outcome = "200"),
               !.last_checked = "iso",
               !.last_error = CASE outcome = "200" -> "None"
                                [] outcome = "not200" -> "Unexpected status"
                                [] OTHER -> "exception"]

\* a response of GET /phone/status or POST /phone/update_ip
PhoneReply(op, status, request_ip, ip) ==
    [op |-> op, status |-> status, request_ip |-> request_ip, ip |-> ip]

\* _phone_health_monitor wakes: _update_phone_health(force=True) up to its await
phone_health_monitor ==
    /\ phone_task["monitor"].pc = "sleep"
    /\ IF phone.ip = None
       THEN /\ phone' = health_no_ip(phone)
            /\ UNCHANGED phone_task
       ELSE /\ phone_task' = [phone_task EXCEPT
                                 !["monitor"] = PhoneTask("probe", phone.ip, None, None)]
            /\ UNCHANGED phone
    /\ UNCHANGED <<phone_log, session_vars>>

\* the probe of caller c ends: the state update, then the rest of the caller
ProbeReturns(c, outcome) ==
    /\ phone_task[c].pc \in {"probe", "status_probe", "update_probe"}
    /\ phone' = probe_update(phone, phone_task[c].ip, outcome)
    /\ phone_task' = [phone_task EXCEPT ![c] = Resting(c)]
    /\ phone_log' =
           CASE phone_task[c].pc = "status_probe" ->
                    Append(phone_log, PhoneReply("status", 200, None, phone'.ip))
             [] phone_task[c].pc = "update_probe" ->
                    Append(phone_log, PhoneReply("update", 200, phone_task[c].request_ip,
                                                 phone_task[c].normalized_ip))
             [] OTHER -> phone_log
    /\ UNCHANGED session_vars

\* GET /phone/status within half an interval of the last check: no probe
get_phone_status_recent(c) ==
    /\ phone_task[c].pc = "idle"
    /\ Len(phone_log) < MaxRequests
    /\ phone.last_checked # "None"
    /\ phone_log' = Append(phone_log, PhoneReply("status", 200, None, phone.ip))
    /\ UNCHANGED <<phone, phone_task, session_vars>>

\* GET /phone/status otherwise
get_phone_status(c) ==
    /\ phone_task[c].pc = "idle"
    /\ Len(phone_log) < MaxRequests
    /\ IF phone.ip = None
       THEN /\ phone' = health_no_ip(phone)
            /\ phone_log' = Append(phone_log, PhoneReply("status", 200, None, phone'.ip))
            /\ UNCHANGED phone_task
       ELSE /\ phone_task' = [phone_task EXCEPT
                                 ![c] = PhoneTask("status_probe", phone.ip, None, None)]
            /\ UNCHANGED <<phone, phone_log>>
    /\ UNCHANGED session_vars

\* POST /phone/update_ip {ip: raw}
update_phone_ip(c, raw) ==
    /\ phone_task[c].pc = "idle"
    /\ Len(phone_log) < MaxRequests
    /\ LET normalized_ip == normalize_phone_ip(raw)
       IN IF normalized_ip = None
          THEN /\ phone_log' = Append(phone_log, PhoneReply("update", 400, raw, None))
               /\ UNCHANGED <<phone, phone_task>>
          ELSE /\ phone' = [phone EXCEPT !.ip = normalized_ip]
               /\ phone_task' = [phone_task EXCEPT
                                    ![c] = PhoneTask("update_probe", normalized_ip, raw,
                                                     normalized_ip)]
               /\ UNCHANGED phone_log
    /\ UNCHANGED session_vars

\* the entry of health_status["services"] after a probe of a service's /health
service_status(outcome) ==
    CASE outcome = "200" -> "healthy"
      [] outcome = "not200" -> "unhealthy"
      [] OTHER -> "unreachable"

\* health_status before the phone is looked at: the two probes, the xai entry
\* and the overall status
health_status(vision, vllm_connected, agent) ==
    LET services == [vision |-> service_status(vision),
                     agent |-> service_status(agent),
                     xai |-> IF XAI_ENABLED THEN "enabled" ELSE "disabled"]
    IN [status |-> IF \E k \in DOMAIN services : services[k] # "healthy"
                   THEN "degraded" ELSE "healthy",
        services |-> services,
        llama_server |-> (vision = "200" /\ vllm_connected)]

\* the response of GET /health
HealthReply(status, ph) ==
    [op |-> "health", status |-> 200, request_ip |-> None, ip |-> ph.ip,
     health_status |-> status, phone |-> ph]

\* the handler of GET /health waiting in _update_phone_health for the probe of ip
HealthTask(status, ip) ==
    [pc |-> "health_probe", ip |-> ip, request_ip |-> None, normalized_ip |-> None,
     health_status |-> status]

\* GET /health within half an interval of the last phone check: no phone probe
health_recent(c, vision, vllm_connected, agent) ==
    /\ phone_task[c].pc = "idle"
    /\ Len(phone_log) < MaxHealthRequests
    /\ phone.last_checked # "None"
    /\ phone_log' = Append(phone_log,
                           HealthReply(health_status(vision, vllm_connected, agent), phone))
    /\ UNCHANGED <<phone, phone_task, session_vars>>

\* GET /health otherwise, up to the await of the phone probe
health(c, vision, vllm_connected, agent) ==
    /\ phone_task[c].pc = "idle"
    /\ Len(phone_log) < MaxHealthRequests
    /\ LET status == health_status(vision, vllm_connected, agent)
       IN IF phone.ip = None
          THEN /\ phone' = health_no_ip(phone)
               /\ phone_log' = Append(phone_log, HealthReply(status, phone'))
               /\ UNCHANGED phone_task
          ELSE /\ phone_task' = [phone_task EXCEPT ![c] = HealthTask(status, phone.ip)]
               /\ UNCHANGED <<phone, phone_log>>
    /\ UNCHANGED session_vars

\* the phone probe of GET /health ends: the state update and the response
HealthProbeReturns(c, outcome) ==
    /\ phone_task[c].pc = "health_probe"
    /\ phone' = probe_update(phone, phone_task[c].ip, outcome)
    /\ phone_task' = [phone_task EXCEPT ![c] = Resting(c)]
    /\ phone_log' = Append(phone_log, HealthReply(phone_task[c].health_status, phone'))
    /\ UNCHANGED session_vars

\* ------------------------------------------------ specifications
Pipeline(s) ==
    \/ analyze_video_emergency(s)
    \/ OpenVideo(s)
    \/ OpenVideoFails(s)
    \/ ExtractFramesFails(s)
    \/ ExtractFrame(s)
    \/ VisionNot200(s)
    \/ VisionRaises(s)
    \/ \E m \in vision_service : VisionOk(s, m)
    \/ XaiOk(s)
    \/ XaiFails(s)
    \/ EndOfStream(s)
    \/ EndOfStreamDispatch(s)
    \/ \E run \in AgentRuns : AgentOk(s, run)
    \/ AgentNot200(s)
    \/ AgentRaises(s)

Next == \E s \in SessionIds : Pipeline(s)

Spec == Init /\ [][Next]_vars

\* the pipeline together with an SSE client of the session
StreamResponses ==
    { EmergencyMetrics("low", 150, {}, <<3>>, FALSE),
      EmergencyMetrics("critical", 950, {"fire"}, NoCount, FALSE) }

InitStream ==
    /\ InitCommon
    /\ NoPhone
    /\ XAI_ENABLED \in BOOLEAN
    /\ vision_service = StreamResponses
    /\ policy = NoPolicyCall

NextStream ==
    \E s \in SessionIds :
        \/ Pipeline(s)
        \/ stream_video_updates(s, "c1")
        \/ event_generator(s, "c1")

SpecStream == InitStream /\ [][NextStream]_vars

\* the same with the event loop running every task that is not waiting: a
\* started pipeline task takes its next step (its remote calls return or fail,
\* the extractor yields or ends); nothing is assumed of the SSE client
FairStream == \A s \in SessionIds : WF_vars(pc[s] # "idle" /\ Pipeline(s))

SpecStreamFair == InitStream /\ [][NextStream]_vars /\ FairStream

\* the pipeline together with two SSE clients of the session
SubscriberResponses == { EmergencyMetrics("critical", 950, {"fire"}, NoCount, FALSE) }

InitSubscribers ==
    /\ InitCommon
    /\ NoPhone
    /\ XAI_ENABLED = TRUE
    /\ vision_service = SubscriberResponses
    /\ policy = NoPolicyCall

NextSubscribers ==
    \E s \in SessionIds :
        \/ Pipeline(s)
        \/ \E c \in Clients : stream_video_updates(s, c)
        \/ \E c \in Clients : event_generator(s, c)

SpecSubscribers == InitSubscribers /\ [][NextSubscribers]_vars


\* ------------------------------------------------ cancellation of the pipeline task
\* the task is cancelled while suspended in an await of the try block (the
\* extractor's sleep between frames, the vision, XAI or agent request):
\* CancelledError is no Exception, so line 691 is skipped and the finally block
\* of lines 693-699 runs
Cancel(s) ==
    /\ \/ pc[s] \in {"vision", "xai", "agent"}
       \/ pc[s] = "frames" /\ local[s].frame_count > 0
    /\ publish_event(s, <<Event("end")>>)
    /\ video_file' = video_file \ {s}
    /\ cleanup_session(s)
    /\ pc' = [pc EXCEPT ![s] = "cancelled"]
    /\ UNCHANGED <<local, XAI_ENABLED, vision_service, consumer, http_status, policy, delivered, phone_vars>>

\* the task is cancelled between create_task and its first step: the coroutine
\* ends before it enters the try block, so no finally runs
CancelBeforeStart(s) ==
    /\ pc[s] = "open"
    /\ pc' = [pc EXCEPT ![s] = "cancelled"]
    /\ UNCHANGED <<SESSION_STREAMS, SESSION_TASKS, queue, published, video_file, local,
                   XAI_ENABLED, vision_service, consumer, http_status, policy, delivered, phone_vars>>

NextCancel ==
    \E s \in SessionIds :
        \/ Pipeline(s)
        \/ Cancel(s)
        \/ CancelBeforeStart(s)

SpecCancel == InitStream /\ [][NextCancel]_vars

\* the phone endpoints called by one client, one request at a time, and the monitor
InitPhone ==
    /\ InitCommon
    /\ XAI_ENABLED = TRUE
    /\ vision_service = {}
    /\ policy = NoPolicyCall
    /\ \E raw \in RawIps : phone = PhoneState(normalize_phone_ip(raw))
    /\ phone_task = InitPhoneTask
    /\ phone_log = << >>

NextPhone ==
    \/ phone_health_monitor
    \/ \E c \in PhoneCallers, outcome \in ProbeOutcomes : ProbeReturns(c, outcome)
    \/ get_phone_status_recent("client")
    \/ get_phone_status("client")
    \/ \E raw \in RawIps : update_phone_ip("client", raw)

SpecPhone == InitPhone /\ [][NextPhone]_vars

\* GET /health called by the client of the phone endpoints, with the monitor
\* running, in a deployment with or without XAI
InitHealth ==
    /\ InitCommon
    /\ XAI_ENABLED \in BOOLEAN
    /\ vision_service = {}
    /\ policy = NoPolicyCall
    /\ \E raw \in RawIps : phone = PhoneState(normalize_phone_ip(raw))
    /\ phone_task = InitPhoneTask
    /\ phone_log = << >>

NextHealth ==
    \/ phone_health_monitor
    \/ \E outcome \in ProbeOutcomes : ProbeReturns("monitor", outcome)
    \/ \E vision \in ProbeOutcomes, vllm_connected \in BOOLEAN, agent \in ProbeOutcomes :
           \/ health_recent("client", vision, vllm_connected, agent)
           \/ health("client", vision, vllm_connected, agent)
    \/ \E outcome \in ProbeOutcomes : HealthProbeReturns("client", outcome)

SpecHealth == InitHealth /\ [][NextHealth]_vars

\* the pure policy functions applied to one metrics record and severity argument
PolicyScores == {0, 150, 450, 595, 600, 750, 870, 875, 950, 1000}
PolicyHazards == {"fire", "medical_emergency", "violence", "smoke", "debris"}
PolicyPeople == {NoCount, <<-10>>, <<0>>, <<3>>, <<7>>}
PolicySeverities == {0, 649, 650}

PolicyInputs ==
    {[metrics |-> EmergencyMetrics(level, score, hazards, people, injuries),
      severity_index |-> sev] :
        level \in UrgencyLevel, score \in PolicyScores, hazards \in SUBSET PolicyHazards,
        people \in PolicyPeople, injuries \in BOOLEAN, sev \in PolicySeverities}

InitPolicy ==
    /\ InitCommon
    /\ NoPhone
    /\ XAI_ENABLED = TRUE
    /\ vision_service = {}
    /\ \E input \in PolicyInputs :
           policy = [called |-> FALSE, metrics |-> input.metrics,
                     severity_index |-> input.severity_index,
                     severity |-> 0, dispatch |-> FALSE, label |-> "-"]

ApplyPolicy ==
    /\ ~policy.called
    /\ policy' = [policy EXCEPT
                     !.called = TRUE,
                     !.severity = calculate_emergency_severity(policy.metrics),
                     !.dispatch = requires_agent_dispatch(policy.metrics,
                                                          policy.severity_index),
                     !.label = resolve_urgency_label(policy.metrics)]
    /\ UNCHANGED <<SESSION_STREAMS, SESSION_TASKS, queue, published, video_file, pc,
                   local, XAI_ENABLED, vision_service, consumer, http_status,
                   delivered, phone_vars>>

NextPolicy == ApplyPolicy

SpecPolicy == InitPolicy /\ [][NextPolicy]_vars


\* ------------------------------------------------ vision_service parse_emergency_response
\* the hazards lines 100-157 can detect
ParserHazards == {"fire", "smoke", "water", "structural_damage", "gas",
                  "medical_emergency", "violence", "blocked_exit"}

\* the keyword groups of lines 177-188 that occur in the response text
KeywordGroups == {"critical", "high", "medium", "low"}

Urgency(level, score) == [urgency_level |-> level, urgency_score |-> score]

assign_urgency_keywords_first(detected_hazards, keywords) ==
    IF "critical" \in keywords THEN Urgency("critical", 950)
    ELSE IF "high" \in keywords THEN Urgency("high", 750)
    ELSE IF detected_hazards \cap {"fire", "violence", "medical_emergency"} # {}
    THEN Urgency("critical", 950)
    ELSE IF detected_hazards \cap {"smoke", "structural_damage", "gas"} # {}
    THEN Urgency("high", 750)
    ELSE IF detected_hazards \cap {"water", "blocked_exit"} # {}
    THEN Urgency("medium", 450)
    ELSE IF "medium" \in keywords THEN Urgency("medium", 450)
    ELSE Urgency("low", 150)

\* lines 160-188: the urgency for the detected hazards and the keyword groups
\* found in the text
assign_urgency(detected_hazards, keywords) ==
    IF \E h \in detected_hazards : h \in {"fire", "violence", "medical_emergency"}
    THEN Urgency("critical", 950)
    ELSE IF \E h \in detected_hazards : h \in {"smoke", "structural_damage", "gas"}
    THEN Urgency("high", 750)
    ELSE IF \E h \in detected_hazards : h \in {"water", "blocked_exit"}
    THEN Urgency("medium", 450)
    ELSE IF "critical" \in keywords THEN Urgency("critical", 950)
    ELSE IF "high" \in keywords THEN Urgency("high", 750)
    ELSE IF "medium" \in keywords THEN Urgency("medium", 450)
    ELSE IF "low" \in keywords THEN Urgency("low", 150)
    ELSE Urgency("low", 150)

InitParser ==
    /\ InitCommon
    /\ NoPhone
    /\ XAI_ENABLED = TRUE
    /\ vision_service = {}
    /\ \E detected_hazards \in SUBSET ParserHazards, keywords \in SUBSET KeywordGroups :
           policy = [called |-> FALSE, detected_hazards |-> detected_hazards,
                     keywords |-> keywords, urgency |-> Urgency("-", 0)]

ApplyParser ==
    /\ ~policy.called
    /\ policy' = [policy EXCEPT
                     !.called = TRUE,
                     !.urgency = assign_urgency(policy.detected_hazards, policy.keywords)]
    /\ UNCHANGED <<SESSION_STREAMS, SESSION_TASKS, queue, published, video_file, pc,
                   local, XAI_ENABLED, vision_service, consumer, http_status,
                   delivered, phone_vars>>

NextParser == ApplyParser

SpecParser == InitParser /\ [][NextParser]_vars

\* ------------------------------------------------ agent_service analyze_emergency
\* words of a scene description: one with a fire token, one with a police token,
\* one with a medical token, one with none
SceneWords == {"flame", "weapon", "victim", "street"}
AgentHazards == {"fire", "violence", "medical_emergency", "water"}
AgentPeople == {NoCount, <<-10>>, <<0>>, <<2>>}

AgentRequests ==
    {[urgency_level |-> "critical", urgency_score |-> 950, scene_description |-> words,
      detected_hazards |-> hazards, people_count |-> people, visible_injuries |-> injuries,
      frame_number |-> 1, severity_index |-> 680] :
        words \in SUBSET SceneWords, hazards \in SUBSET AgentHazards,
        people \in AgentPeople, injuries \in BOOLEAN}

InitAgent ==
    /\ InitCommon
    /\ NoPhone
    /\ XAI_ENABLED = TRUE
    /\ vision_service = {}
    /\ \E request \in AgentRequests, run \in AgentRuns :
           policy = [called |-> FALSE, request |-> request, run |-> run,
                     response |-> [success |-> FALSE, emergency_calls |-> << >>]]

\* POST /analyze with an initialized agent_executor
ApplyAgent ==
    /\ ~policy.called
    /\ policy' = [policy EXCEPT
                     !.called = TRUE,
                     !.response = analyze_emergency(policy.request, policy.run)]
    /\ UNCHANGED <<SESSION_STREAMS, SESSION_TASKS, queue, published, video_file, pc,
                   local, XAI_ENABLED, vision_service, consumer, http_status,
                   delivered, phone_vars>>

NextAgent == ApplyAgent

SpecAgent == InitAgent /\ [][NextAgent]_vars

\* ------------------------------------------------ properties
TerminalEvents == {"complete", "error"}
XaiEvents == {"xai_heatmap", "xai_error", "xai_disabled"}

\* the positions of the session's published events whose name is in names
Positions(s, names) == {i \in 1..Len(published[s]) : published[s][i].event \in names}

\* the urgency values an event carries in its urgency fields and in the urgency
\* of its emergency_responses, incidents and timeline points
UrgenciesCarried(e) ==
    {e.urgency_level, e.threat_level, e.dominant_urgency_level}
    \cup {e.emergency_responses[i].urgency : i \in 1..Len(e.emergency_responses)}
    \cup {e.critical_incidents[i].urgency_level : i \in 1..Len(e.critical_incidents)}
    \cup {e.urgency_timeline[i].urgency_level : i \in 1..Len(e.urgency_timeline)}

\* C1: the events of a session hold at most one terminal event (complete or
\* error), the terminal event is immediately followed by end, end is the last
\* event, and a session whose task has returned has published its terminal event
C1_OneTerminalThenEnd ==
    \A s \in SessionIds :
        LET h == published[s]
        IN /\ Cardinality(Positions(s, TerminalEvents)) <= 1
           /\ Cardinality(Positions(s, {"end"})) <= 1
           /\ \A i \in Positions(s, TerminalEvents) :
                  i + 1 = Len(h) /\ h[i + 1].event = "end"
           /\ \A i \in Positions(s, {"end"}) :
                  i = Len(h) /\ i > 1 /\ h[i - 1].event \in TerminalEvents
           /\ pc[s] = "done" => Cardinality(Positions(s, TerminalEvents)) = 1

C1_Witness ==
    \E s \in SessionIds :
        /\ pc[s] = "done"
        /\ Positions(s, {"frame"}) # {}
        /\ Positions(s, {"xai_error"}) # {}
        /\ Positions(s, {"tool_call"}) # {}
        /\ published[s][Len(published[s]) - 1].event = "complete"

\* C2: once end is enqueued and the task has returned, the session is in neither
\* SESSION_STREAMS nor SESSION_TASKS, and every later GET /stream/video/{id}
\* answers 404
C2_AbsentAfterEnd ==
    /\ [](\A s \in SessionIds :
             pc[s] = "done" =>
                 /\ Positions(s, {"end"}) # {}
                 /\ s \notin SESSION_STREAMS
                 /\ s \notin SESSION_TASKS)
    /\ [][\A s \in SessionIds, c \in Clients :
             pc[s] = "done" /\ stream_video_updates(s, c) => http_status'[s][c] = 404]_vars

C2_Witness ==
    \E s \in SessionIds :
        /\ pc[s] = "done"
        /\ \E c \in Clients : consumer[s][c] = "ended" /\ http_status[s][c] = 404

\* C3: the urgency_level of every frame and incident event, of every entry of
\* critical_incidents and urgency_timeline, and the threat_level and
\* dominant_urgency_level of complete are low, normal, medium or high, never
\* critical
C3_NoCriticalLabel ==
    \A s \in SessionIds :
        \A i \in 1..Len(published[s]) :
            LET e == published[s][i]
            IN /\ e.event \in {"frame", "incident"} => e.urgency_level \in Labels
               /\ e.event = "complete" =>
                      /\ e.threat_level \in Labels
                      /\ e.dominant_urgency_level \in Labels
                      /\ \A k \in 1..Len(e.critical_incidents) :
                             e.critical_incidents[k].urgency_level \in Labels
                      /\ \A k \in 1..Len(e.urgency_timeline) :
                             e.urgency_timeline[k].urgency_level \in Labels

C3_Witness ==
    \E s \in SessionIds :
        /\ pc[s] = "done"
        /\ local[s].metrics # << >>
        /\ local[s].metrics[1].urgency_level = "critical"
        /\ \E i \in Positions(s, {"complete"}) :
               /\ published[s][i].threat_level = "high"
               /\ published[s][i].critical_incidents # << >>
               /\ published[s][i].urgency_timeline # << >>

\* C4: no published event of any kind carries critical as an urgency, the
\* emergency_responses of agent_call, tool_call and complete included
C4_NoCriticalPublished ==
    \A s \in SessionIds :
        \A i \in 1..Len(published[s]) : "critical" \notin UrgenciesCarried(published[s][i])

\* C5: a session publishes at most one xai_heatmap event, and it precedes complete
C5_XaiHeatmapOnce ==
    \A s \in SessionIds :
        /\ Cardinality(Positions(s, {"xai_heatmap"})) <= 1
        /\ \A i \in Positions(s, {"xai_heatmap"}) :
               \A j \in Positions(s, {"complete"}) : i < j

C5_Witness ==
    \E s \in SessionIds :
        /\ pc[s] = "done"
        /\ Positions(s, {"xai_heatmap"}) # {}
        /\ \E i \in Positions(s, {"incident"}) :
               \E j \in Positions(s, {"xai_heatmap"}) : j < i
        /\ Positions(s, {"complete"}) # {}

\* C6: a session makes at most one XAI request and publishes at most one event
\* among xai_heatmap, xai_error and xai_disabled
C6_OneXaiRequestAndEvent ==
    \A s \in SessionIds :
        /\ local[s].xai_requests <= 1
        /\ Cardinality(Positions(s, XaiEvents)) <= 1

\* C7: a session makes at most one agent call and publishes at most one
\* agent_call event, after every frame, incident and xai event; every tool_call
\* event has exactly one agent_call event before it
C7_AgentCallOnce ==
    \A s \in SessionIds :
        /\ local[s].agent_requests <= 1
        /\ Cardinality(Positions(s, {"agent_call"})) <= 1
        /\ \A i \in Positions(s, {"agent_call"}) :
               \A j \in Positions(s, {"frame", "incident"} \cup XaiEvents) : j < i
        /\ \A j \in Positions(s, {"tool_call"}) :
               Cardinality({i \in Positions(s, {"agent_call"}) : i < j}) = 1

C7_Witness ==
    \E s \in SessionIds :
        /\ pc[s] = "done"
        /\ local[s].agent_requests = 1
        /\ Cardinality(Positions(s, {"frame"})) >= 2
        /\ Positions(s, XaiEvents) # {}
        /\ Positions(s, {"agent_call"}) # {}
        /\ Positions(s, {"tool_call"}) # {}

\* C8: a finished session has published agent_call if and only if a dispatch
\* frame was selected at end-of-stream and the agent call answered 200; otherwise
\* it has published neither agent_call nor tool_call
C8_AgentCallIffSelectedAnd200 ==
    \A s \in SessionIds :
        LET returned == SelectDispatch(local[s]) # << >> /\ local[s].agent_status = "200"
        IN /\ pc[s] = "done" /\ Positions(s, {"complete"}) # {} =>
                  (Positions(s, {"agent_call"}) # {} <=> returned)
           /\ ~returned => Positions(s, {"agent_call", "tool_call"}) = {}

C8_Witness ==
    \E s \in SessionIds :
        /\ pc[s] = "done"
        /\ local[s].selected # << >>
        /\ local[s].agent_status = "not200"
        /\ Positions(s, {"frame"}) # {}
        /\ Positions(s, {"complete"}) # {}
        /\ Positions(s, {"agent_call", "tool_call"}) = {}

\* C9: requires_agent_dispatch(m, s) is true exactly when (fire or
\* medical_emergency is among the hazards of m, or m has visible injuries) and
\* (urgency_score >= 6.0 or s >= 6.5)
C9_DispatchIff ==
    policy.called =>
        (policy.dispatch <=>
            /\ \/ "fire" \in policy.metrics.detected_hazards
               \/ "medical_emergency" \in policy.metrics.detected_hazards
               \/ policy.metrics.visible_injuries
            /\ \/ policy.metrics.urgency_score >= 600
               \/ policy.severity_index >= 650)

C9_Witness ==
    /\ policy.called
    /\ policy.dispatch
    /\ policy.metrics.detected_hazards = {"smoke"}
    /\ policy.metrics.visible_injuries
    /\ policy.metrics.urgency_score < 600
    /\ policy.severity_index = 650

CriticalHazards == {"fire", "medical_emergency", "violence"}

\* C10 as stated: every record with fire, medical_emergency or violence among
\* its hazards has severity >= 6.0, whatever its score and people_count
C10_SeverityAtLeast6 ==
    policy.called /\ policy.metrics.detected_hazards \cap CriticalHazards # {}
        => policy.severity >= 600

\* C10 amended: every record with fire, medical_emergency or violence among its
\* hazards, urgency_score >= 8.75 and people_count absent or >= 0 has
\* severity >= 6.0
C10_SeverityAtLeast6FromScore875 ==
    /\ policy.called
    /\ policy.metrics.detected_hazards \cap CriticalHazards # {}
    /\ policy.metrics.urgency_score >= 875
    /\ PeopleOrZero(policy.metrics.people_count) >= 0
    => policy.severity >= 600

C10_Witness ==
    /\ policy.called
    /\ policy.metrics.detected_hazards = {"violence"}
    /\ policy.metrics.urgency_score = 875
    /\ policy.metrics.people_count = NoCount
    /\ ~policy.metrics.visible_injuries
    /\ policy.severity = 600

\* C11: for every accepted metrics record (urgency_score in [0, 10], any hazards,
\* any or no people_count, negative counts included) calculate_emergency_severity
\* returns a value in [0, 10]
C11_SeverityInRange ==
    policy.called => policy.severity >= 0 /\ policy.severity <= 1000

\* the record of scenario S1
S1Metrics == EmergencyMetrics("low", 150, {}, <<3>>, FALSE)

\* C12 as stated: calculate_emergency_severity of the S1 record is 0.6
C12_S1SeverityIs060 ==
    policy.called /\ policy.metrics = S1Metrics => policy.severity = 60

\* C12 amended: calculate_emergency_severity of the S1 record is 1.5, the share
\* 0.4 * 1.5 = 0.6 of the score plus 0.3 for each of the 3 people
C12_S1SeverityIs150 ==
    policy.called /\ policy.metrics = S1Metrics => policy.severity = 150

C12_Witness ==
    /\ policy.called
    /\ policy.metrics = S1Metrics
    /\ policy.severity = 60 + 3 * 30

\* the frame of scenario S5: smoke only, score 7.5, no injuries, severity 5.0
S5Frame(m) ==
    /\ m.detected_hazards = {"smoke"}
    /\ m.urgency_score = 750
    /\ ~m.visible_injuries
    /\ calculate_emergency_severity(m) = 500

\* a session that has analyzed frames, every one of them an S5 frame
S5Session(s) ==
    /\ local[s].all_metrics # << >>
    /\ \A i \in 1..Len(local[s].all_metrics) : S5Frame(local[s].all_metrics[i])

\* C13 as stated: a session whose only analyzed frames are S5 frames makes no
\* agent call and publishes no agent_call event
C13_S5NoAgentCall ==
    \A s \in SessionIds :
        S5Session(s) =>
            /\ local[s].agent_requests = 0
            /\ Positions(s, {"agent_call"}) = {}

\* C13 amended: in a session whose only analyzed frames are S5 frames no frame
\* is a dispatch candidate and no frame or incident event recommends dispatch,
\* but once the session has published complete it has made exactly one agent
\* call, for its first analyzed frame (best severity 5.0 >= 5.0), and it has
\* published agent_call exactly when the agent answered 200
C13_S5AgentCalledByFallback ==
    \A s \in SessionIds :
        S5Session(s) =>
            /\ local[s].dispatch_candidates = << >>
            /\ \A i \in Positions(s, {"frame", "incident"}) :
                   ~published[s][i].dispatch_recommended
            /\ Positions(s, {"complete"}) # {} =>
                   /\ local[s].agent_requests = 1
                   /\ local[s].selected =
                          <<[metrics |-> local[s].all_metrics[1], severity |-> 500]>>
                   /\ Positions(s, {"agent_call"}) # {} <=> local[s].agent_status = "200"

C13_Witness ==
    \E s \in SessionIds :
        /\ S5Session(s)
        /\ Len(local[s].all_metrics) >= 2
        /\ pc[s] = "done"
        /\ Positions(s, {"complete"}) # {}
        /\ Positions(s, {"agent_call"}) # {}

\* C14: a failure of the vision call for a frame (unreachable, timeout, status
\* other than 200) only skips the frame: a session whose video opened and yielded
\* frames ends with complete and never publishes error
C14_VisionFailureOnlySkips ==
    \A s \in SessionIds :
        /\ \A i \in Positions(s, {"error"}) :
               published[s][i].detail # "vision request failed"
        /\ pc[s] = "done" /\ local[s].frame_count > 0 =>
               /\ Positions(s, {"error"}) = {}
               /\ Positions(s, {"complete"}) # {}

\* the names of the events a step publishes for session s
AppendedNames(s) ==
    [i \in 1..(Len(published'[s]) - Len(published[s])) |->
        published'[s][Len(published[s]) + i].event]

\* C15: a failure of the XAI call or of the agent call never ends the session
\* with error. The step that ends an XAI call without a result publishes exactly
\* xai_error and returns to the frame loop; the step that ends a failed agent
\* call publishes exactly complete, end; no step that ends an XAI or agent call
\* publishes error; a finished session whose agent call failed has published
\* complete and neither agent_call nor tool_call; and a finished session that
\* published xai_error lacks complete only through a later vision request failure
C15_RemoteFailureNotFatal ==
    /\ [][\A s \in SessionIds :
             pc[s] = "xai" /\ pc'[s] # "xai" =>
                 /\ pc'[s] = "frames"
                 /\ local'[s].xai_analysis = "None" => AppendedNames(s) = <<"xai_error">>
                 /\ \A i \in DOMAIN AppendedNames(s) : AppendedNames(s)[i] # "error"]_vars
    /\ [][\A s \in SessionIds :
             pc[s] = "agent" /\ pc'[s] # "agent" =>
                 /\ local'[s].agent_status # "200" => AppendedNames(s) = <<"complete", "end">>
                 /\ \A i \in DOMAIN AppendedNames(s) : AppendedNames(s)[i] # "error"]_vars
    /\ [](\A s \in SessionIds :
             pc[s] = "done" /\ local[s].agent_status \in {"not200", "raised"} =>
                 /\ Positions(s, {"complete"}) # {}
                 /\ Positions(s, {"error", "agent_call", "tool_call"}) = {})
    /\ [](\A s \in SessionIds :
             pc[s] = "done" /\ Positions(s, {"xai_error"}) # {}
                 /\ Positions(s, {"complete"}) = {} =>
                 \E i \in Positions(s, {"error"}) :
                     published[s][i].detail = "vision request failed")

C15_Witness ==
    \E s \in SessionIds :
        /\ pc[s] = "done"
        /\ Positions(s, {"xai_error"}) # {}
        /\ \E i \in Positions(s, {"xai_error"}), j \in Positions(s, {"frame"}) : i < j
        /\ local[s].agent_status = "raised"
        /\ Positions(s, {"complete"}) # {}

\* the session's video could not be opened
OpenFailed(s) ==
    \E i \in Positions(s, {"error"}) : published[s][i].detail = "Could not open video file"

\* C16: when the video cannot be opened the session's events are exactly error,
\* end, and the session is then in neither SESSION_STREAMS nor SESSION_TASKS
C16_OpenFailureErrorEnd ==
    \A s \in SessionIds :
        OpenFailed(s) =>
            /\ [i \in 1..Len(published[s]) |-> published[s][i].event] = <<"error", "end">>
            /\ local[s].frame_count = 0
            /\ s \notin SESSION_STREAMS
            /\ s \notin SESSION_TASKS
            /\ s \notin video_file

C16_Witness ==
    \E s \in SessionIds : OpenFailed(s) /\ pc[s] = "done" /\ Len(queue[s]) = 2

\* C17: a pipeline task cancelled at a suspension point before it published a
\* terminal event has deleted the temp video file and has published error
\* followed by end
C17_CancelPublishesErrorEnd ==
    \A s \in SessionIds :
        pc[s] = "cancelled" =>
            /\ s \notin video_file
            /\ Len(published[s]) >= 2
            /\ published[s][Len(published[s]) - 1].event = "error"
            /\ published[s][Len(published[s])].event = "end"

\* C18: at most one subscriber is attached to a session's queue at any time, so
\* the events of a session are never split between two consumers
C18_SingleSubscriber ==
    \A s \in SessionIds :
        /\ Cardinality({c \in Clients : consumer[s][c] = "attached"}) <= 1
        /\ Cardinality({c \in Clients : delivered[s][c] > 0}) <= 1

\* C19: every session queue is bounded: the number of undelivered events of a
\* session never exceeds the queue's capacity
C19_QueueBounded ==
    \A s \in SessionIds : Len(queue[s]) <= QueueCapacity

\* the positions of the successful update_ip responses in the log
SavedAt == {i \in 1..Len(phone_log) : phone_log[i].op = "update" /\ phone_log[i].status = 200}

\* C20: every GET /phone/status answered after a successful update_ip and before
\* the next one returns that update's normalized ip, whatever the monitor does
\* in between; an update_ip is answered 400 exactly when its ip normalizes to
\* empty, and the step that answers 400 leaves SYSTEM_STATE["phone"] unchanged
C20_StatusReturnsSavedIp ==
    /\ [](\A i \in SavedAt, j \in 1..Len(phone_log) :
             /\ i < j
             /\ phone_log[j].op = "status"
             /\ \A k \in SavedAt : k <= i \/ k > j
             => /\ phone_log[j].ip = normalize_phone_ip(phone_log[i].request_ip)
                /\ phone_log[j].ip = phone_log[i].ip
                /\ phone_log[j].ip # None)
    /\ [](\A i \in 1..Len(phone_log) :
             phone_log[i].op = "update" =>
                 (phone_log[i].status = 400 <=>
                     normalize_phone_ip(phone_log[i].request_ip) = None))
    /\ [][Len(phone_log') = Len(phone_log) + 1
             /\ phone_log'[Len(phone_log')].status = 400 => phone' = phone]_vars

C20_Witness ==
    /\ Len(phone_log) = 3
    /\ phone_log[1] = PhoneReply("update", 200, <<"http://", "192.168.1.50", "/", "/">>,
                                 <<"192.168.1.50">>)
    /\ phone_log[2] = PhoneReply("update", 400, <<"http://", "/">>, None)
    /\ phone_log[3] = PhoneReply("status", 200, None, <<"192.168.1.50">>)
    /\ phone.connected
    /\ phone_task["monitor"].pc = "probe"
    /\ phone_task["monitor"].ip = <<"10.0.0.2:8080">>

\* C21: a phone health check that runs while ip is unset leaves connected false
\* and last_error "Phone IP not configured"; in every state an unset ip implies
\* connected false, and after any check the configured-ip error
C21_UnsetIpNotConnected ==
    /\ [](phone.ip = None =>
             /\ ~phone.connected
             /\ phone.last_checked # "None" =>
                    phone.last_error = "Phone IP not configured")
    /\ [][phone.ip = None /\ (phone_health_monitor \/ get_phone_status("client")) =>
             /\ phone'.ip = None
             /\ ~phone'.connected
             /\ phone'.last_error = "Phone IP not configured"]_vars

C21_Witness ==
    /\ phone.ip = None
    /\ phone.last_checked = "iso"
    /\ phone.last_error = "Phone IP not configured"
    /\ Len(phone_log) = 2
    /\ phone_log[1] = PhoneReply("update", 400, << >>, None)
    /\ phone_log[2] = PhoneReply("status", 200, None, None)

\* the frame the end-of-stream selection is to choose among the analyzed frames
\* ms, as a set of positions: the earliest of the candidates of greatest severity,
\* else the earliest frame of greatest severity when that is >= 5.0, else none
ExpectedSelection(ms) ==
    LET sev(i) == calculate_emergency_severity(ms[i])
        cands == {i \in 1..Len(ms) : requires_agent_dispatch(ms[i], sev(i))}
        Top(S) == {i \in S : \A j \in S : sev(j) <= sev(i)}
        Earliest(S) == {i \in S : \A j \in S : i <= j}
    IN IF cands # {} THEN Earliest(Top(cands))
       ELSE {i \in Earliest(Top(1..Len(ms))) : sev(i) >= 500}

\* C22: once a session is past end-of-stream its selected frame is the earliest
\* dispatch candidate of greatest severity if there is a candidate, else the
\* earliest frame of greatest severity if that severity is >= 5.0, else there is
\* no selected frame and no agent call was made
C22_DispatchSelection ==
    \A s \in SessionIds :
        pc[s] = "agent" \/ Positions(s, {"complete"}) # {} =>
            LET ms == local[s].all_metrics
                expected == ExpectedSelection(ms)
            IN /\ expected = {} => local[s].selected = << >> /\ local[s].agent_requests = 0
               /\ \A i \in expected :
                      /\ local[s].selected =
                             <<[metrics |-> ms[i],
                                severity |-> calculate_emergency_severity(ms[i])]>>
                      /\ local[s].agent_requests = 1

C22_Witness ==
    \E s \in SessionIds :
        LET ms == local[s].all_metrics
        IN /\ pc[s] = "done"
           /\ Positions(s, {"complete"}) # {}
           /\ Len(ms) = 3
           /\ ~requires_agent_dispatch(ms[1], calculate_emergency_severity(ms[1]))
           /\ calculate_emergency_severity(ms[1]) >= 500
           /\ ms[2] = [ms[3] EXCEPT !.frame_number = 2]
           /\ ExpectedSelection(ms) = {2}
           /\ local[s].selected[1].metrics.frame_number = 2

\* the trigger condition of C23 on the metrics of a frame
XaiCondition(m) ==
    \/ Priority(resolve_urgency_label(m)) >= Priority("high")
    \/ calculate_emergency_severity(m) >= 700
    \/ m.visible_injuries

\* C23: with XAI enabled and no XAI result yet, the XAI client is called on an
\* analyzed frame exactly when its label is high, its severity is >= 7.0 or it
\* has visible injuries: a session has made no XAI request exactly when none of
\* its analyzed frames meets the condition
C23_XaiCalledIffCondition ==
    \A s \in SessionIds :
        XAI_ENABLED =>
            (local[s].xai_requests = 0 <=>
                \A i \in 1..Len(local[s].all_metrics) :
                    ~XaiCondition(local[s].all_metrics[i]))

\* C24: the urgency is that of the first matching rule over the detected
\* hazards: fire, violence or medical_emergency gives critical/9.5; else smoke,
\* structural_damage or gas gives high/7.5; else water or blocked_exit gives
\* medium/4.5; with no hazard the keyword groups decide in the order critical,
\* high, medium, low, default low/1.5; with a hazard the keywords change nothing
C24_UrgencyByFirstRule ==
    policy.called =>
        LET hz == policy.detected_hazards
            kw == policy.keywords
            u == policy.urgency
        IN /\ (hz \cap {"fire", "violence", "medical_emergency"} # {})
                  => u = Urgency("critical", 950)
           /\ (/\ hz \cap {"fire", "violence", "medical_emergency"} = {}
               /\ hz \cap {"smoke", "structural_damage", "gas"} # {})
                  => u = Urgency("high", 750)
           /\ (/\ hz \cap {"fire", "violence", "medical_emergency",
                           "smoke", "structural_damage", "gas"} = {}
               /\ hz \cap {"water", "blocked_exit"} # {})
                  => u = Urgency("medium", 450)
           /\ hz = {} =>
                  u = CASE "critical" \in kw -> Urgency("critical", 950)
                        [] "critical" \notin kw /\ "high" \in kw -> Urgency("high", 750)
                        [] kw \cap {"critical", "high"} = {} /\ "medium" \in kw ->
                               Urgency("medium", 450)
                        [] OTHER -> Urgency("low", 150)
           /\ hz # {} => u = assign_urgency(hz, {})

C24_Witness ==
    /\ policy.called
    /\ policy.detected_hazards = {"water", "gas"}
    /\ policy.keywords = {"critical", "low"}
    /\ policy.urgency = Urgency("high", 750)

\* the fallback service of C25 for a request
C25_Service(request) ==
    LET text == request.scene_description \cup request.detected_hazards
        fire == text \cap {"fire", "flame", "smoke"} # {}
        violence == text \cap {"violence", "weapon"} # {}
    IN IF fire THEN "fire"
       ELSE IF request.visible_injuries \/ (request.people_count # NoCount
                                            /\ request.people_count[1] > 0) THEN "samu"
       ELSE IF violence THEN "police"
       ELSE "samu"

C26_SessionTerminates ==
    \A s \in SessionIds :
        pc[s] = "open" ~>
            /\ pc[s] = "done"
            /\ Positions(s, {"end"}) # {}
            /\ s \notin SESSION_STREAMS
            /\ s \notin SESSION_TASKS

C26_Witness ==
    \E s \in SessionIds :
        /\ pc[s] = "done"
        /\ \A c \in Clients : consumer[s][c] = "none"
        /\ Len(queue[s]) = Len(published[s])
        /\ Len(queue[s]) > QueueCapacity
        /\ published[s][Len(published[s])].event = "end"

\* C27: a GET /stream/video/{id} made after the session was started, while no
\* client has read any of its events, is answered 200 and attached to the
\* session's queue: the session is never removed with its events unread
C27_SubscribeAfterStartAttaches ==
    [][\A s \in SessionIds :
          (/\ pc[s] # "idle"
           /\ \A c \in Clients : delivered[s][c] = 0
           /\ stream_video_updates(s, "c1"))
          => /\ http_status'[s]["c1"] = 200
             /\ consumer'[s]["c1"] = "attached"]_vars

\* C28: a probe that was started against an ip other than the stored one leaves
\* connected and last_error as they are when it ends, so that connected always
\* reflects a probe of the stored ip
C28_StaleProbeIgnored ==
    [][\A c \in PhoneCallers, outcome \in ProbeOutcomes :
          (/\ phone_task[c].ip # phone.ip
           /\ ProbeReturns(c, outcome))
          => /\ phone'.connected = phone.connected
             /\ phone'.last_error = phone.last_error]_vars

\* the labels of the frame events of session s
FrameLabels(s) == {published[s][i].urgency_level : i \in Positions(s, {"frame"})}

\* C29: the dominant_urgency_level of complete is the label of one of the
\* session's frame events, and low when the session has no frame event
C29_DominantIsFrameLabel ==
    \A s \in SessionIds :
        \A i \in Positions(s, {"complete"}) :
            LET dominant == published[s][i].dominant_urgency_level
            IN IF FrameLabels(s) = {}
               THEN dominant = "low"
               ELSE dominant \in FrameLabels(s)

\* the responses of GET /health in the log
HealthReplies == {phone_log[i].health_status : i \in {j \in 1..Len(phone_log) : phone_log[j].op = "health"}}

\* C30: GET /health reports healthy when the vision and the agent probe both
\* returned 200, and degraded only when one of the two is unhealthy or unreachable
C30_HealthyWhenBothProbesOk ==
    \A status \in HealthReplies :
        status.status = "healthy"
            <=> (status.services.vision = "healthy" /\ status.services.agent = "healthy")

\* no GET /health ever reports healthy
C30_NeverHealthy == \A status \in HealthReplies : status.status = "degraded"

C30_BothProbesOkReplied ==
    \E status \in HealthReplies :
        /\ status.services.vision = "healthy"
        /\ status.services.agent = "healthy"
        /\ status.llama_server
        /\ status.services.xai = "disabled"

====
